---------------------------- MODULE Spec2Model ----------------------------
(***************************************************************************)
(* Model of the Hugging Face model search CLI of OllamaTrauma              *)
(* (scripts/python/hf_model_search.py): the ranker rank_models, the size   *)
(* heuristic _parse_b_from_id, the catalog probes and the command-line     *)
(* entry point; and of the storage helpers (scripts/storage_organize.py),  *)
(* the management menus (OllamaTrauma-python/ollama_trauma.py and          *)
(* OllamaTrauma.py) and the crawler (scripts/python/url_crawler.py), each  *)
(* with a specification of its own over its own variables.                 *)
(*                                                                         *)
(* Strings are sequences of one-character strings, so that the regular     *)
(* expression of _parse_b_from_id, lower(), endswith() and the substring   *)
(* tests are computed character by character.  Scores are exact rationals  *)
(* kept as an integer numerator over a denominator common to one call.     *)
(***************************************************************************)
EXTENDS Integers, Sequences, FiniteSets, TLC

\* the search CLI: hits is what the catalog answers to a search, trace the
\* requests and pauses of the last rank_models call
VARIABLES pc, hits, models, call, args, scored, out, printed, typed, said, trace
\* storage_organize.py: the entries of the root directory and the last call
VARIABLES tree, fscall
\* the management menus of ollama_trauma.py and OllamaTrauma.py: the program
\* that runs, its environment, its position, the models `ollama list` reports,
\* the list a removal menu displayed, the model picked from it, the line last
\* read, and the model the last step issued `ollama rm` for
VARIABLES prog, environ, mpc, installed, shown, picked, entered, removal
\* url_crawler.py: the site crawled, the call stack of crawl_url, the visited
\* set and the URLs requested so far
VARIABLES site, frames, visited, requested

rankVars == <<pc, hits, models, call, args, scored, out, printed, typed, said, trace>>
storageVars == <<tree, fscall>>
menuVars == <<prog, environ, mpc, installed, shown, picked, entered, removal>>
crawlVars == <<site, frames, visited, requested>>
\* the state of the programs other than the search CLI
otherPrograms == <<storageVars, menuVars, crawlVars>>

vars == <<rankVars, storageVars, menuVars, crawlVars>>

\* Python's None for optional values: an optional value is <<>> or a tuple
None == <<>>

-----------------------------------------------------------------------------
(* Characters and strings                                                  *)

DigitChars == <<"0", "1", "2", "3", "4", "5", "6", "7", "8", "9">>
UpperChars == <<"A", "B", "C", "D", "E", "F", "G", "H", "I", "J", "K", "L", "M",
                "N", "O", "P", "Q", "R", "S", "T", "U", "V", "W", "X", "Y", "Z">>
LowerChars == <<"a", "b", "c", "d", "e", "f", "g", "h", "i", "j", "k", "l", "m",
                "n", "o", "p", "q", "r", "s", "t", "u", "v", "w", "x", "y", "z">>

Range(s) == {s[i] : i \in DOMAIN s}

IsDigit(c) == c \in Range(DigitChars)
IsSpace(c) == c \in {" ", "\t", "\n", "\r"}
IsWordChar(c) == c \in Range(DigitChars) \cup Range(UpperChars) \cup Range(LowerChars) \cup {"_"}

DigitVal(c) == (CHOOSE k \in DOMAIN DigitChars : DigitChars[k] = c) - 1

\* str.lower() on one character, then on a string
LowerChar(c) ==
    IF c \in Range(UpperChars)
    THEN LowerChars[CHOOSE k \in DOMAIN UpperChars : UpperChars[k] = c]
    ELSE c
Lower(s) == [i \in DOMAIN s |-> LowerChar(s[i])]

\* `sub in s` on strings
Contains(s, sub) ==
    \E i \in 1..(Len(s) - Len(sub) + 1) : SubSeq(s, i, i + Len(sub) - 1) = sub
\* s.endswith(suf)
EndsWith(s, suf) ==
    /\ Len(suf) <= Len(s)
    /\ SubSeq(s, Len(s) - Len(suf) + 1, Len(s)) = suf
\* the first index of character c in s, 0 if there is none
IndexOf(s, c) ==
    IF \E i \in DOMAIN s : s[i] = c
    THEN CHOOSE i \in DOMAIN s : s[i] = c /\ \A j \in 1..(i - 1) : s[j] # c
    ELSE 0
\* repo.split("/")[0]
SplitFirst(s) ==
    IF IndexOf(s, "/") = 0 THEN s ELSE SubSeq(s, 1, IndexOf(s, "/") - 1)

RECURSIVE StripRight(_)
StripRight(s) ==
    IF s # <<>> /\ IsSpace(s[Len(s)]) THEN StripRight(SubSeq(s, 1, Len(s) - 1)) ELSE s
RECURSIVE StripLeft(_)
StripLeft(s) == IF s # <<>> /\ IsSpace(Head(s)) THEN StripLeft(Tail(s)) ELSE s
\* s.strip()
Strip(s) == StripLeft(StripRight(s))

\* the character U+00B2, a digit to str.isdigit() that int() does not accept
SUPERSCRIPT_TWO == "SUPERSCRIPT TWO"

\* s.isdigit(): not empty, and every character has the Unicode property Digit,
\* which the decimal digits have and the superscript digits too
IsDigitStr(s) ==
    /\ s # <<>>
    /\ \A i \in DOMAIN s : IsDigit(s[i]) \/ s[i] = SUPERSCRIPT_TWO

-----------------------------------------------------------------------------
(* _parse_b_from_id: re.search(r"(\d+(?:\.\d+)?)\s*[bB]\b", repo_id)       *)
(* A size is <<num, den>>, the value float(group 1) = num / den.           *)

RECURSIVE DigitRunEnd(_, _)
\* the first index >= i of s that holds no digit (Len(s) + 1 at the end)
DigitRunEnd(s, i) ==
    IF i <= Len(s) /\ IsDigit(s[i]) THEN DigitRunEnd(s, i + 1) ELSE i

RECURSIVE SkipSpaces(_, _)
SkipSpaces(s, i) ==
    IF i <= Len(s) /\ IsSpace(s[i]) THEN SkipSpaces(s, i + 1) ELSE i

\* [bB]\b at index q: the b is a word character, so \b asks for the end of
\* the string or a non-word character after it
BoundaryB(s, q) ==
    /\ q <= Len(s)
    /\ s[q] \in {"b", "B"}
    /\ (q = Len(s) \/ ~IsWordChar(s[q + 1]))

\* \s*[bB]\b from index p
SuffixMatches(s, p) == BoundaryB(s, SkipSpaces(s, p))

RECURSIVE DecimalValue(_)
DecimalValue(ds) ==
    IF ds = <<>> THEN 0
    ELSE 10 * DecimalValue(SubSeq(ds, 1, Len(ds) - 1)) + DigitVal(ds[Len(ds)])

\* int(s) of a string that passed isdigit(): <<n>>, or None for the ValueError
\* int() raises on a character that is no decimal digit
IntOf(s) == IF \A i \in DOMAIN s : IsDigit(s[i]) THEN <<DecimalValue(s)>> ELSE None

RECURSIVE Pow10(_)
Pow10(n) == IF n = 0 THEN 1 ELSE 10 * Pow10(n - 1)

\* the digits s[i..j-1], "." and the digits s[j+1..k-1] are matched: the rest.
\* (Giving the fraction back leaves "." before \s*[bB], which cannot match.)
MatchFrac(s, i, j, k) ==
    IF SuffixMatches(s, k)
    THEN <<DecimalValue(SubSeq(s, i, j - 1) \o SubSeq(s, j + 1, k - 1)), Pow10(k - j - 1)>>
    ELSE None

\* the digits s[i..j-1] are matched, greedily: the optional fraction and the rest
MatchInt(s, i, j) ==
    IF j + 1 <= Len(s) /\ s[j] = "." /\ IsDigit(s[j + 1])
    THEN MatchFrac(s, i, j, DigitRunEnd(s, j + 1))
    ELSE IF SuffixMatches(s, j) THEN <<DecimalValue(SubSeq(s, i, j - 1)), 1>>
    ELSE None

\* the match of the pattern that starts at index i, None if there is none
MatchAt(s, i) ==
    IF i <= Len(s) /\ IsDigit(s[i]) THEN MatchInt(s, i, DigitRunEnd(s, i)) ELSE None

RECURSIVE SearchFrom(_, _)
RECURSIVE MatchOrNext(_, _, _)
\* re.search: the match at the leftmost index where there is one
SearchFrom(s, i) ==
    IF i > Len(s) THEN None ELSE MatchOrNext(MatchAt(s, i), s, i)
MatchOrNext(m, s, i) == IF m # None THEN m ELSE SearchFrom(s, i + 1)

\* float(m.group(1)) of the match, None without one
_parse_b_from_id(repo_id) == SearchFrom(repo_id, 1)

\* Python truth of a parsed size: None and 0.0 are false
Truthy(size) == size # None /\ size[1] # 0

-----------------------------------------------------------------------------
(* The catalog: the models the Hub lists and what its detail lookups       *)
(* answer.  A listed model m has modelId, id, tags and pipeline_tag; the   *)
(* detail lookup model_info(repo_id) answers downloads, likes and          *)
(* lastModified or raises; list_repo_files(repo_id) answers file names or  *)
(* raises.  lastModified is None or <<days, aware>>: a timestamp `days`    *)
(* whole days before now, with (aware) or without a UTC offset.            *)

ID_MODEL_13B == <<"o", "r", "g", "/", "m", "o", "d", "e", "l", "-", "1", "3", "b">>
ID_MODEL_13B_GGUF == <<"o", "r", "g", "/", "m", "o", "d", "e", "l", "-", "1", "3", "b", "-", "G", "G", "U", "F">>
ID_BLOKE_7B == <<"T", "h", "e", "B", "l", "o", "k", "e", "/", "m", "-", "7", "B", "-", "G", "G", "U", "F">>
ID_GPT2 == <<"g", "p", "t", "2">>
ID_LLAMA == <<"m", "e", "t", "a", "/", "l", "l", "a", "m", "a">>
ID_DATA == <<"o", "r", "g", "/", "d", "a", "t", "a">>
ID_PLAIN_A == <<"o", "r", "g", "/", "a">>
ID_PLAIN_C == <<"o", "r", "g", "/", "c">>
ID_PLAIN_D == <<"o", "r", "g", "/", "d">>
TAG_TEXT_GENERATION == <<"t", "e", "x", "t", "-", "g", "e", "n", "e", "r", "a", "t", "i", "o", "n">>
TAG_TEXT_GENERATION_CAP == <<"T", "e", "x", "t", "-", "G", "e", "n", "e", "r", "a", "t", "i", "o", "n">>
TAG_TRANSFORMERS == <<"t", "r", "a", "n", "s", "f", "o", "r", "m", "e", "r", "s">>
TAG_GGUF == <<"g", "g", "u", "f">>
TAG_7B == <<"7", "b">>
TAG_13B == <<"1", "3", "B">>
DOT_GGUF == <<".", "g", "g", "u", "f">>
DOT_SAFETENSORS == <<".", "s", "a", "f", "e", "t", "e", "n", "s", "o", "r", "s">>
DOT_BIN == <<".", "b", "i", "n">>
PYTORCH_MODEL == <<"p", "y", "t", "o", "r", "c", "h", "_", "m", "o", "d", "e", "l">>
FILE_README == <<"R", "E", "A", "D", "M", "E", ".", "m", "d">>
FILE_GGUF == <<"m", ".", "Q", "4", ".", "G", "G", "U", "F">>
FILE_SAFETENSORS == <<"m", "o", "d", "e", "l", ".", "s", "a", "f", "e", "t", "e", "n", "s", "o", "r", "s">>
FILE_PYTORCH == <<"p", "y", "t", "o", "r", "c", "h", "_", "m", "o", "d", "e", "l", ".", "p", "t">>
FILE_BIN == <<"x", ".", "b", "i", "n">>

\* the listed models, by catalog key
Listing ==
    <<[modelId |-> ID_MODEL_13B, id |-> ID_MODEL_13B, tags |-> <<>>, pipeline_tag |-> <<>>],
      [modelId |-> ID_MODEL_13B_GGUF, id |-> ID_MODEL_13B_GGUF, tags |-> <<TAG_GGUF>>,
       pipeline_tag |-> <<>>],
      [modelId |-> ID_BLOKE_7B, id |-> ID_BLOKE_7B, tags |-> <<TAG_TRANSFORMERS>>,
       pipeline_tag |-> TAG_TEXT_GENERATION],
      [modelId |-> ID_GPT2, id |-> ID_GPT2, tags |-> <<TAG_TEXT_GENERATION_CAP, TAG_7B, TAG_13B>>,
       pipeline_tag |-> <<>>],
      [modelId |-> <<>>, id |-> <<>>, tags |-> <<TAG_TRANSFORMERS>>, pipeline_tag |-> <<>>],
      [modelId |-> ID_LLAMA, id |-> ID_LLAMA, tags |-> <<TAG_TEXT_GENERATION>>,
       pipeline_tag |-> <<>>],
      [modelId |-> <<>>, id |-> ID_DATA, tags |-> <<>>, pipeline_tag |-> <<>>],
      [modelId |-> ID_PLAIN_A, id |-> ID_PLAIN_A, tags |-> <<>>, pipeline_tag |-> <<>>],
      [modelId |-> ID_PLAIN_C, id |-> ID_PLAIN_C, tags |-> <<>>, pipeline_tag |-> <<>>],
      [modelId |-> ID_PLAIN_D, id |-> ID_PLAIN_D, tags |-> <<>>, pipeline_tag |-> <<>>]>>

Keys == DOMAIN Listing

\* api.model_info(repo_id): [ok |-> FALSE] when the request raises
ModelInfo(repo_id) ==
    CASE repo_id = ID_MODEL_13B ->
            [ok |-> TRUE, downloads |-> <<2>>, likes |-> <<1>>, lastModified |-> <<1, TRUE>>]
      [] repo_id = ID_MODEL_13B_GGUF ->
            [ok |-> TRUE, downloads |-> <<1>>, likes |-> <<0>>, lastModified |-> <<0, TRUE>>]
      [] repo_id = ID_BLOKE_7B ->
            [ok |-> TRUE, downloads |-> <<2>>, likes |-> <<1>>, lastModified |-> None]
      [] repo_id = ID_GPT2 ->
            [ok |-> TRUE, downloads |-> None, likes |-> None, lastModified |-> <<3, FALSE>>]
      [] repo_id = ID_DATA ->
            [ok |-> TRUE, downloads |-> <<1>>, likes |-> <<1>>, lastModified |-> <<-1, TRUE>>]
      [] repo_id = ID_PLAIN_A ->
            [ok |-> TRUE, downloads |-> <<100>>, likes |-> <<5>>, lastModified |-> <<2, TRUE>>]
      [] repo_id = ID_PLAIN_C ->
            [ok |-> TRUE, downloads |-> <<50>>, likes |-> <<5>>, lastModified |-> <<2, TRUE>>]
      [] repo_id = ID_PLAIN_D ->
            [ok |-> TRUE, downloads |-> <<10>>, likes |-> <<5>>, lastModified |-> <<2, TRUE>>]
      [] OTHER -> [ok |-> FALSE]

\* api.list_repo_files(repo_id)
ListRepoFiles(repo_id) ==
    CASE repo_id = ID_MODEL_13B -> [ok |-> TRUE, files |-> {FILE_README}]
      [] repo_id = ID_MODEL_13B_GGUF -> [ok |-> TRUE, files |-> {FILE_README, FILE_GGUF}]
      [] repo_id = ID_BLOKE_7B -> [ok |-> TRUE, files |-> {FILE_GGUF, FILE_SAFETENSORS}]
      [] repo_id = ID_GPT2 -> [ok |-> TRUE, files |-> {FILE_PYTORCH, FILE_SAFETENSORS}]
      [] repo_id = ID_DATA -> [ok |-> TRUE, files |-> {FILE_BIN}]
      [] repo_id \in {ID_PLAIN_A, ID_PLAIN_C, ID_PLAIN_D} -> [ok |-> TRUE, files |-> {FILE_README}]
      [] OTHER -> [ok |-> FALSE]

-----------------------------------------------------------------------------
(* Metric resolution                                                       *)

\* int(info.downloads) when the lookup answers and has the field, else 0
DownloadsOf(info) == IF info.ok /\ info.downloads # None THEN info.downloads[1] ELSE 0
get_downloads_safe(repo_id) == DownloadsOf(ModelInfo(repo_id))

LikesOf(info) == IF info.ok /\ info.likes # None THEN info.likes[1] ELSE 0
get_likes_safe(repo_id) == LikesOf(ModelInfo(repo_id))

\* the parsed lastModified, None when the lookup raises or has no timestamp
LastModifiedOf(info) == IF info.ok THEN info.lastModified ELSE None
get_lastmodified_safe(repo_id) == LastModifiedOf(ModelInfo(repo_id))

\* getattr(m, "modelId", None) or getattr(m, "id", None) or getattr(m, "modelId", None)
ResolveId(m) == IF m.modelId # <<>> THEN m.modelId ELSE m.id

\* the tags rank_models collects: pipeline_tag, if any, and the tags
CollectTags(m) ==
    (IF m.pipeline_tag # <<>> THEN {m.pipeline_tag} ELSE {}) \cup Range(m.tags)

\* weight types from the lower-cased file names, in the order the code appends them
TypesOf(lower) ==
    (IF \E f \in lower : Contains(f, DOT_GGUF) THEN <<"gguf">> ELSE <<>>)
    \o (IF \E f \in lower : EndsWith(f, DOT_SAFETENSORS) THEN <<"safetensors">> ELSE <<>>)
    \o (IF \E f \in lower : Contains(f, PYTORCH_MODEL) \/ EndsWith(f, DOT_BIN)
        THEN <<"pytorch">> ELSE <<>>)
TypesOfListing(listing) ==
    IF listing.ok THEN TypesOf({Lower(f) : f \in listing.files}) ELSE <<>>
WeightTypes(repo_id) == TypesOfListing(ListRepoFiles(repo_id))

-----------------------------------------------------------------------------
(* rank_models                                                             *)

TrustedOrgs ==
    {<<"T", "h", "e", "B", "l", "o", "k", "e">>,
     <<"s", "t", "a", "b", "i", "l", "i", "t", "y", "a", "i">>,
     <<"m", "e", "t", "a">>,
     <<"o", "p", "e", "n", "a", "i">>,
     <<"h", "u", "g", "g", "i", "n", "g", "f", "a", "c", "e">>,
     <<"E", "l", "e", "u", "t", "h", "e", "r", "A", "I">>,
     <<"b", "i", "g", "s", "c", "i", "e", "n", "c", "e">>,
     <<"m", "i", "c", "r", "o", "s", "o", "f", "t">>}

Max(S) == CHOOSE x \in S : \A y \in S : y <= x

\* s[:n] of Python: a negative n counts from the end
Slice(s, n) ==
    IF n >= 0 THEN SubSeq(s, 1, IF n < Len(s) THEN n ELSE Len(s))
    ELSE SubSeq(s, 1, Len(s) + n)

\* a sort that reverses an ascending sort: equal keys come out in reverse order
SortDescReversed(s, keys) ==
    LET before(i) == {j \in DOMAIN s : keys[j] > keys[i] \/ (keys[j] = keys[i] /\ j > i)}
    IN  [p \in DOMAIN s |-> s[CHOOSE i \in DOMAIN s : Cardinality(before(i)) = p - 1]]

\* list.sort(key=..., reverse=True) on s with keys[i] the key of s[i]: the sort
\* is stable, and reverse=True keeps equal keys in their original order.  The
\* element of s at index i goes to the place after those that precede it.
SortDesc(s, keys) ==
    LET before(i) == {j \in DOMAIN s : keys[j] > keys[i] \/ (keys[j] = keys[i] /\ j < i)}
    IN  [p \in DOMAIN s |-> s[CHOOSE i \in DOMAIN s : Cardinality(before(i)) = p - 1]]

RECURSIVE FetchItemsAborting(_)
\* a metric loop that the first failed detail lookup ends
FetchItemsAborting(ms) ==
    IF ms = <<>> THEN <<>>
    ELSE IF ResolveId(Listing[Head(ms)]) = <<>> THEN FetchItemsAborting(Tail(ms))
    ELSE IF ~ModelInfo(ResolveId(Listing[Head(ms)])).ok THEN <<>>
    ELSE <<[repo_id |-> ResolveId(Listing[Head(ms)]), model |-> Head(ms),
            downloads |-> get_downloads_safe(ResolveId(Listing[Head(ms)])),
            likes |-> get_likes_safe(ResolveId(Listing[Head(ms)])),
            lastmod |-> get_lastmodified_safe(ResolveId(Listing[Head(ms)])),
            tags |-> CollectTags(Listing[Head(ms)])]>>
         \o FetchItemsAborting(Tail(ms))

RECURSIVE FetchItemsNoSkip(_)
\* a metric loop without `if not repo_id: continue`
FetchItemsNoSkip(ms) ==
    IF ms = <<>> THEN <<>>
    ELSE <<[repo_id |-> ResolveId(Listing[Head(ms)]), model |-> Head(ms),
            downloads |-> get_downloads_safe(ResolveId(Listing[Head(ms)])),
            likes |-> get_likes_safe(ResolveId(Listing[Head(ms)])),
            lastmod |-> get_lastmodified_safe(ResolveId(Listing[Head(ms)])),
            tags |-> CollectTags(Listing[Head(ms)])]>>
         \o FetchItemsNoSkip(Tail(ms))

RECURSIVE FetchItems(_)
\* the metric loop: a model with no id is skipped, every other one is looked up
FetchItems(ms) ==
    IF ms = <<>> THEN <<>>
    ELSE LET m == Listing[Head(ms)]
             repo_id == ResolveId(m)
         IN  (IF repo_id = <<>> THEN <<>>
              ELSE <<[repo_id |-> repo_id, model |-> Head(ms),
                      downloads |-> get_downloads_safe(repo_id),
                      likes |-> get_likes_safe(repo_id),
                      lastmod |-> get_lastmodified_safe(repo_id),
                      tags |-> CollectTags(m)]>>)
             \o FetchItems(Tail(ms))

\* days = max(0, (now - lastmod).days); no timestamp, or the TypeError of an
\* aware now minus a naive lastmod, gives 365
RecencyDays(lastmod) ==
    IF lastmod = None THEN 365
    ELSE IF ~lastmod[2] THEN 365
    ELSE IF lastmod[1] > 0 THEN lastmod[1] ELSE 0

\* the probe loop: weight types and owner of one item
Probe(x) ==
    [repo_id |-> x.repo_id, model |-> x.model, downloads |-> x.downloads,
     likes |-> x.likes, lastmod |-> x.lastmod, tags |-> x.tags,
     weight_types |-> WeightTypes(x.repo_id), owner |-> SplitFirst(x.repo_id)]

HasWeight(x, w) == \E i \in DOMAIN x.weight_types : x.weight_types[i] = w

\* what the loop `for t in tags: size_b = _parse_b_from_id(t) or size_b` can
\* leave in size_b: tags is a set, so the last tag with a true size is any of them
TrueSizesOr(sizes) ==
    IF \E z \in sizes : Truthy(z) THEN {z \in sizes : Truthy(z)} ELSE {None}
TagSizeOutcomes(tags) == TrueSizesOr({_parse_b_from_id(t) : t \in tags})

\* one enumeration of every model's tag set: catalog key -> size left by the loop
PicksWithin(outcomes) ==
    {f : f \in {g \in [Keys -> UNION {outcomes[k] : k \in Keys}] :
                    \A k \in Keys : g[k] \in outcomes[k]}}
TagPicks == PicksWithin([k \in Keys |-> TagSizeOutcomes(CollectTags(Listing[k]))])

\* the tag loop does not run (max_b is None)
NoTagPick == [k \in Keys |-> None]

\* size_b = _parse_b_from_id(it["repo_id"]) or None, then the tags if it is None
IdSizeOr(fromId, fromTags) == IF Truthy(fromId) THEN fromId ELSE fromTags
SizeB(it, tagSize) == IdSizeOr(_parse_b_from_id(it.repo_id), tagSize[it.model])

\* the max_b filter's test of one item; max_b is <<n>>
SizeTest(size_b, max_b, weight_types) ==
    IF size_b # None THEN size_b[1] <= max_b[1] * size_b[2]
    ELSE weight_types # <<>>
KeepMaxB(it, max_b, tagSize) == SizeTest(SizeB(it, tagSize), max_b, it.weight_types)

FilterGguf(items, gguf_only) ==
    IF gguf_only THEN SelectSeq(items, LAMBDA it : HasWeight(it, "gguf")) ELSE items

FilterMaxB(items, max_b, tagSize) ==
    IF max_b # None THEN SelectSeq(items, LAMBDA it : KeepMaxB(it, max_b, tagSize))
    ELSE items

\* the boosts of item x in twentieths: 0.2 = 4/20, 0.15 = 3/20, 0.35 = 7/20,
\* 0.1 = 2/20, 0.25 = 5/20
TagBoost(low_tags, pipeline_tag) ==
    (IF TAG_TEXT_GENERATION \in low_tags \/ Contains(pipeline_tag, TAG_TEXT_GENERATION)
     THEN 4 ELSE 0)
    + (IF TAG_TRANSFORMERS \in low_tags THEN 3 ELSE 0)
WeightBoost(x) ==
    (IF HasWeight(x, "gguf") THEN 7 ELSE 0)
    + (IF HasWeight(x, "safetensors") THEN 4 ELSE 0)
    + (IF HasWeight(x, "pytorch") THEN 2 ELSE 0)
OwnerBoost(x) == IF x.owner \in TrustedOrgs THEN 5 ELSE 0

\* the denominator of one call's scores: x / max is kept as x over max, and a
\* max of 0 makes the term 0
Floor1(n) == IF n > 0 THEN n ELSE 1
ScoreDen(max_dl, max_likes, max_rec) ==
    20 * Floor1(max_dl) * Floor1(max_likes) * Floor1(max_rec)

\* score = dl_norm * 0.45 + likes_norm * 0.25 + rec_norm * 0.15 + boosts, as a
\* numerator over ScoreDen: 0.45 = 9/20, 0.25 = 5/20, 0.15 = 3/20
Score(x, recency_days, max_dl, max_likes, max_rec) ==
    (IF max_dl > 0 THEN 9 * x.downloads * Floor1(max_likes) * Floor1(max_rec) ELSE 0)
    + (IF max_likes > 0 THEN 5 * x.likes * Floor1(max_dl) * Floor1(max_rec) ELSE 0)
    + (IF max_rec > 0 THEN 3 * (max_rec - recency_days) * Floor1(max_dl) * Floor1(max_likes)
       ELSE 0)
    + (TagBoost({Lower(t) : t \in {u \in x.tags : u # <<>>}}, Listing[x.model].pipeline_tag)
       + WeightBoost(x) + OwnerBoost(x))
      * Floor1(max_dl) * Floor1(max_likes) * Floor1(max_rec)

\* the scoring loop `for idx, x in enumerate(items)`: recencies is indexed by
\* the position idx of x in the filtered list; frame keeps the maxima the
\* normalized terms were divided by
ScoreAll(items, recencies, max_dl, max_likes, max_rec) ==
    [idx \in DOMAIN items |->
        [score |-> Score(items[idx], recencies[idx], max_dl, max_likes, max_rec),
         den |-> ScoreDen(max_dl, max_likes, max_rec),
         frame |-> <<max_dl, max_likes, max_rec>>,
         x |-> items[idx]]]

\* scored.sort(key=lambda x: x[0]) without reverse=True: ascending
SortScoredAscending(unsorted) ==
    SortDesc(unsorted, [i \in DOMAIN unsorted |-> 0 - unsorted[i].score])

\* scored.sort(reverse=True, key=lambda x: x[0])
SortScored(unsorted) == SortDesc(unsorted, [i \in DOMAIN unsorted |-> unsorted[i].score])

Recencies(items0) == [i \in DOMAIN items0 |-> RecencyDays(items0[i].lastmod)]

\* a composite branch that takes the maxima over the filtered items
CompositeFrameAfterFilters(probed, gguf_only, max_b, tagSize) ==
    LET kept == FilterMaxB(FilterGguf(probed, gguf_only), max_b, tagSize)
    IN  SortScored(ScoreAll(kept, Recencies(probed),
                            Max({kept[i].downloads : i \in DOMAIN kept}),
                            Max({kept[i].likes : i \in DOMAIN kept}),
                            Max({RecencyDays(kept[i].lastmod) : i \in DOMAIN kept})))

\* the composite branch on the probed items, up to the sort: max_dl, max_likes
\* and recencies are taken over all of them, then the filters, the scores and
\* the sort
CompositeOn(probed, gguf_only, max_b, tagSize) ==
    SortScored(ScoreAll(FilterMaxB(FilterGguf(probed, gguf_only), max_b, tagSize),
                        Recencies(probed),
                        Max({probed[i].downloads : i \in DOMAIN probed}),
                        Max({probed[i].likes : i \in DOMAIN probed}),
                        Max({RecencyDays(probed[i].lastmod) : i \in DOMAIN probed})))

Composite(items0, gguf_only, max_b, tagSize) ==
    CompositeOn([i \in DOMAIN items0 |-> Probe(items0[i])], gguf_only, max_b, tagSize)

\* a returned tuple: (metric, repo_id, m) or (downloads, repo_id, m, meta);
\* meta is None in the three-tuple
Entry(metric, x, meta) ==
    [dl |-> metric, repo_id |-> x.repo_id, model |-> x.model, meta |-> meta]

\* [(x["downloads"], x["repo_id"], x["model"]) for x in items[:top_n]]
DownloadsOut(top) == [i \in DOMAIN top |-> Entry(top[i].downloads, top[i], None)]
LikesOut(top) == [i \in DOMAIN top |-> Entry(top[i].likes, top[i], None)]
\* out.append((int(meta.get("downloads", 0)), repo_id, m, meta)) for scored[:top_n]
CompositeOut(top) == [i \in DOMAIN top |-> Entry(top[i].x.downloads, top[i].x, <<top[i].x>>)]

RequireWeights(sortedScored, require_weights) ==
    IF require_weights THEN SelectSeq(sortedScored, LAMBDA s : s.x.weight_types # <<>>)
    ELSE sortedScored

CompositeResult(sortedScored, top_n, require_weights) ==
    [scored |-> sortedScored,
     out |-> CompositeOut(Slice(RequireWeights(sortedScored, require_weights), top_n))]

\* rank_models after the metric loop
RankItems(items, top_n, sort_mode, require_weights, gguf_only, max_b, tagSize) ==
    IF items = <<>> THEN [scored |-> <<>>, out |-> <<>>]
    ELSE IF sort_mode = "downloads"
    THEN [scored |-> <<>>,
          out |-> DownloadsOut(Slice(SortDesc(items, [i \in DOMAIN items |-> items[i].downloads]),
                                     top_n))]
    ELSE IF sort_mode = "likes"
    THEN [scored |-> <<>>,
          out |-> LikesOut(Slice(SortDesc(items, [i \in DOMAIN items |-> items[i].likes]),
                                 top_n))]
    ELSE CompositeResult(Composite(items, gguf_only, max_b, tagSize), top_n, require_weights)

\* rank_models(models, top_n, sort_mode, require_weights, gguf_only, max_b):
\* [scored, out], scored the list the composite branch sorted (<<>> otherwise)
rank_models(ms, top_n, sort_mode, require_weights, gguf_only, max_b, tagSize) ==
    RankItems(FetchItems(ms), top_n, sort_mode, require_weights, gguf_only, max_b, tagSize)

-----------------------------------------------------------------------------
(* The requests rank_models sends to the catalog, and its pauses           *)

Request(op, repo_id) == [op |-> op, repo |-> repo_id]
\* time.sleep(0.1)
Sleep == [op |-> "sleep", repo |-> None]

RECURSIVE MetricTrace(_)
\* the metric loop: three detail lookups (downloads, likes, lastModified) for
\* each model that has an id, then the pause
MetricTrace(ms) ==
    IF ms = <<>> THEN <<>>
    ELSE LET repo_id == ResolveId(Listing[Head(ms)])
         IN  (IF repo_id = <<>> THEN <<>>
              ELSE <<Request("model_info", repo_id), Request("model_info", repo_id),
                     Request("model_info", repo_id), Sleep>>)
             \o MetricTrace(Tail(ms))

\* the probe loop of the composite branch: one file listing for each item
ProbeTrace(items) == [i \in DOMAIN items |-> Request("list_repo_files", items[i].repo_id)]

\* the requests and pauses of rank_models(ms, sort_mode=sort_mode), in order
RequestTrace(ms, sort_mode) ==
    MetricTrace(ms)
    \o (IF sort_mode = "composite" THEN ProbeTrace(FetchItems(ms)) ELSE <<>>)

-----------------------------------------------------------------------------
(* Search entry points and display                                         *)

FETCH_LIMIT == 80
TOP_N == 10

\* api.list_models(search=keyword, limit=fetch_limit): the catalog's matches,
\* at most fetch_limit of them
search_by_name(matches, fetch_limit) == Slice(matches, fetch_limit)

\* search_by_tag: the same request, then the client-side tag filter
search_by_tag(tag, matches, fetch_limit) ==
    SelectSeq(Slice(matches, fetch_limit),
              LAMBDA k : \/ Lower(tag) \in {Lower(t) : t \in CollectTags(Listing[k])}
                         \/ Contains(Lower(Listing[k].modelId), Lower(tag)))

\* a show_top_list without the `if not scored_list` test
ShowTopListUnguarded(scored_list) ==
    [header |-> "Top models:",
     lines |-> [i \in DOMAIN scored_list |->
        [name |-> Listing[scored_list[i].model].modelId,
         downloads |-> scored_list[i].dl,
         tag |-> Listing[scored_list[i].model].pipeline_tag,
         weights |-> <<>>,
         likes |-> None]]]

\* the numbered lines show_top_list prints, "No models found." for an empty list
show_top_list(scored_list) ==
    IF scored_list = <<>> THEN [header |-> "No models found.", lines |-> <<>>]
    ELSE [header |-> "Top models:",
          lines |-> [i \in DOMAIN scored_list |->
             LET item == scored_list[i]
                 m == Listing[item.model]
             IN  [name |-> m.modelId,
                  downloads |-> item.dl,
                  tag |-> IF m.pipeline_tag # <<>> THEN m.pipeline_tag
                          ELSE IF m.tags # <<>> THEN m.tags[1] ELSE <<>>,
                  weights |-> IF item.meta # None THEN item.meta[1].weight_types ELSE <<>>,
                  likes |-> IF item.meta # None THEN <<item.meta[1].likes>> ELSE None]]]

\* what a prompt loop printed last: a message, or a message and a model detail
Say(text) == [text |-> text, detail |-> None]
Silent == Say("")

\* show_model_detail(repo_id, m, dl, meta) for the selected tuple sel
show_model_detail(sel) ==
    [id |-> sel.repo_id,
     downloads |-> sel.dl,
     tags |-> Listing[sel.model].tags,
     pipeline_tag |-> Listing[sel.model].pipeline_tag,
     likes |-> IF sel.meta # None THEN <<sel.meta[1].likes>> ELSE None,
     weight_types |-> IF sel.meta # None THEN sel.meta[1].weight_types ELSE <<>>,
     owner |-> IF sel.meta # None THEN sel.meta[1].owner ELSE <<>>,
     lastmod |-> IF sel.meta # None THEN sel.meta[1].lastmod ELSE None]

-----------------------------------------------------------------------------
(* Bounds and input sets                                                   *)

MaxBatch == 3
MaxTopN == 2

RECURSIVE SeqsUpTo(_, _)
\* the sequences of at most n elements of S
SeqsUpTo(S, n) ==
    IF n = 0 THEN {<<>>}
    ELSE LET shorter == SeqsUpTo(S, n - 1)
         IN  shorter \cup {Append(q, e) : q \in {r \in shorter : Len(r) = n - 1},
                                          e \in S}

\* the listed models one search can answer: the mixed models, or the three
\* plain ones (a hundred, fifty and ten downloads, nothing else to tell them apart)
SearchPools == {{k \in Keys : Listing[k].modelId \notin {ID_PLAIN_A, ID_PLAIN_C, ID_PLAIN_D}},
                {k \in Keys : Listing[k].modelId \in {ID_PLAIN_A, ID_PLAIN_C, ID_PLAIN_D}}}

\* the catalog's answer to a search: distinct listed models of one pool in some order
Batches ==
    {q \in SeqsUpTo(Keys, MaxBatch) :
        /\ \A i, j \in DOMAIN q : i # j => q[i] # q[j]
        /\ \E pool \in SearchPools : Range(q) \subseteq pool}

SortModes == {"downloads", "likes", "composite"}
TopNs == (-1..MaxTopN) \cup {TOP_N}
\* --max-b: absent, or 7 (billions of parameters)
MaxBs == {None, <<7>>}

NoCall == [top_n |-> 0, sort_mode |-> "", require_weights |-> FALSE,
           gguf_only |-> FALSE, max_b |-> None, tagSize |-> NoTagPick]
NoArgs == [name |-> None, tag |-> None, sort |-> "", limit |-> 0, top |-> 0,
           require_weights |-> FALSE, gguf_only |-> FALSE, max_b |-> None]
NothingPrinted == [header |-> "", lines |-> <<>>]

KEYWORD == <<"g", "p", "t">>

\* the lines a user types at the prompts
ZERO == <<"0">>
MenuInputs == {ZERO, <<" ", "0">>, <<"1">>, <<"2">>, <<"3">>, <<>>}
NameInputs == {ZERO, KEYWORD}
TagInputs == {ZERO, TAG_GGUF, TAG_TEXT_GENERATION}
ListInputs == {ZERO, <<"1">>, <<"2", " ">>, <<"9">>, <<"x">>, <<SUPERSCRIPT_TWO>>}

\* the command lines: --name or --tag or neither, with every other flag
ArgSpace ==
    [name : {None, KEYWORD}, tag : {None, TAG_GGUF, TAG_TEXT_GENERATION},
     sort : SortModes, limit : {1, FETCH_LIMIT}, top : {1, TOP_N},
     require_weights : BOOLEAN, gguf_only : BOOLEAN, max_b : MaxBs]

\* the command lines that leave --limit, --top and the filters at their
\* defaults: the ones the prompts are explored from
DefaultArgs ==
    {a \in ArgSpace : /\ a.limit = FETCH_LIMIT /\ a.top = TOP_N
                      /\ ~a.require_weights /\ ~a.gguf_only /\ a.max_b = None}

-----------------------------------------------------------------------------
(* scripts/storage_organize.py: the root directory is a function from the  *)
(* names of its entries to their kinds; what is inside a subdirectory is   *)
(* not touched by either helper and is left out.                           *)

MARKER_TARGET_ONLY == <<".", "m", "a", "r", "k", "e", "r", "_", "t", "a", "r", "g", "e", "t",
                        "_", "o", "n", "l", "y">>
INBOX == <<"i", "n", "b", "o", "x">>
ARCHIVE == <<"a", "r", "c", "h", "i", "v", "e">>
PROCESSED == <<"p", "r", "o", "c", "e", "s", "s", "e", "d">>
STANDARD_FOLDERS == <<INBOX, ARCHIVE, PROCESSED>>

\* name.replace(" ", "_")
ReplaceSpaces(name) == [i \in DOMAIN name |-> IF name[i] = " " THEN "_" ELSE name[i]]

\* the directory t with entry name of kind kind added or replaced
WithEntry(t, name, kind) ==
    [n \in DOMAIN t \cup {name} |-> IF n = name THEN kind ELSE t[n]]
\* the directory t without entry name
WithoutEntry(t, name) == [n \in DOMAIN t \ {name} |-> t[n]]

\* Path.exists(), Path.is_file()
Exists(t, name) == name \in DOMAIN t
IsFile(t, name) == name \in DOMAIN t /\ t[name] = "file"

\* what a helper leaves: the directory, and the exception it raised if any
Left(t, raised) == [tree |-> t, raised |-> raised]

RECURSIVE MakeFolders(_, _)
\* the loop of ensure_standard_folders with dry_run=False:
\* mkdir(parents=True, exist_ok=True) raises when the name is a file
MakeFolders(t, ds) ==
    IF ds = <<>> THEN Left(t, None)
    ELSE IF IsFile(t, Head(ds)) THEN Left(t, <<"FileExistsError">>)
    ELSE MakeFolders(WithEntry(t, Head(ds), "dir"), Tail(ds))

\* a helper that does not look for the marker
EnsureIgnoringMarker(t, dry_run) ==
    IF dry_run THEN Left(t, None) ELSE MakeFolders(t, STANDARD_FOLDERS)

ensure_standard_folders(t, dry_run) ==
    IF Exists(t, MARKER_TARGET_ONLY) THEN Left(t, None)
    ELSE IF dry_run THEN Left(t, None)
    ELSE MakeFolders(t, STANDARD_FOLDERS)

\* p.rename(target) of a file: POSIX replaces an existing file and refuses a
\* directory; Windows refuses every existing target
Rename(t, os_name, p, target) ==
    IF os_name = "nt" /\ Exists(t, target) THEN Left(t, <<"FileExistsError">>)
    ELSE IF Exists(t, target) /\ ~IsFile(t, target) THEN Left(t, <<"IsADirectoryError">>)
    ELSE Left(WithEntry(WithoutEntry(t, p), target, "file"), None)

RECURSIVE NormalizeLoop(_, _, _, _)
\* the loop of normalize_filenames over the entries listed at its start
NormalizeLoop(t, os_name, dry_run, entries) ==
    IF entries = <<>> THEN Left(t, None)
    ELSE LET p == Head(entries)
             new_name == ReplaceSpaces(p)
         IN  IF IsFile(t, p) /\ new_name # p /\ ~dry_run
             THEN LET r == Rename(t, os_name, p, new_name)
                  IN  IF r.raised # None THEN r
                      ELSE NormalizeLoop(r.tree, os_name, dry_run, Tail(entries))
             ELSE NormalizeLoop(t, os_name, dry_run, Tail(entries))

\* a helper that renames whatever dry_run says
NormalizeIgnoringDryRun(t, os_name, dry_run, entries) ==
    NormalizeLoop(t, os_name, FALSE, entries)

\* normalize_filenames(root, dry_run); entries is list(root.iterdir()), whose
\* order the operating system chooses
normalize_filenames(t, os_name, dry_run, entries) ==
    NormalizeLoop(t, os_name, dry_run, entries)

\* the orders in which iterdir() can list the directory t
Listings(t) ==
    {e \in [1..Cardinality(DOMAIN t) -> DOMAIN t] :
        \A i, j \in DOMAIN e : i # j => e[i] # e[j]}

A_SPACE_B == <<"a", " ", "b">>
A_UNDER_B == <<"a", "_", "b">>
C_SPACES_D == <<"c", " ", " ", "d">>
\* the names a root directory starts with
EntryNames == {MARKER_TARGET_ONLY, INBOX, A_SPACE_B, A_UNDER_B, C_SPACES_D}
Kinds == {"file", "dir"}
\* the directories a call starts from
Trees == UNION {[names -> Kinds] : names \in SUBSET EntryNames}
OsNames == {"posix", "nt"}

NoFsCall == [fn |-> "none", dry_run |-> TRUE, os_name |-> "posix", before |-> <<>>,
             raised |-> None]
\* no storage helper runs
StorageIdle == tree = <<>> /\ fscall = NoFsCall

\* no management menu runs
MenusIdle ==
    /\ prog = "none"
    /\ environ = <<>>
    /\ mpc = "main"
    /\ installed = <<>>
    /\ shown = <<>>
    /\ picked = None
    /\ entered = None
    /\ removal = None

\* no crawl runs
CrawlIdle ==
    /\ site = <<>>
    /\ frames = <<>>
    /\ visited = {}
    /\ requested = <<>>

-----------------------------------------------------------------------------
(* The state machine                                                       *)

Init ==
    /\ pc = "start"
    /\ hits \in Batches
    /\ models = <<>>
    /\ call = NoCall
    /\ args = NoArgs
    /\ scored = <<>>
    /\ out = <<>>
    /\ printed = NothingPrinted
    /\ typed = None
    /\ said = Silent
    /\ trace = <<>>
    /\ StorageIdle
    /\ MenusIdle
    /\ CrawlIdle

\* rank_models returned r
Returned(r) ==
    /\ scored' = r.scored
    /\ out' = r.out

\* a caller invokes rank_models on the catalog's matches
RankCall ==
    /\ pc = "start"
    /\ \E top_n \in TopNs, sort_mode \in SortModes, require_weights \in BOOLEAN,
          gguf_only \in BOOLEAN, max_b \in MaxBs :
        \E tagSize \in IF max_b # None THEN TagPicks ELSE {NoTagPick} :
          /\ call' = [top_n |-> top_n, sort_mode |-> sort_mode,
                      require_weights |-> require_weights,
                      gguf_only |-> gguf_only, max_b |-> max_b, tagSize |-> tagSize]
          /\ trace' = RequestTrace(hits, sort_mode)
          /\ Returned(rank_models(hits, top_n, sort_mode, require_weights, gguf_only,
                                  max_b, tagSize))
    /\ models' = hits
    /\ pc' = "ranked"
    /\ UNCHANGED <<hits, args, printed, typed, said, otherPrograms>>

\* show_top_list(scored): the lines, then the selection prompt unless the list
\* is empty, in which case the caller goes on at `back`
Shown(r, back) ==
    /\ Returned(r)
    /\ printed' = show_top_list(r.out)
    /\ pc' = IF r.out = <<>> THEN back ELSE "list"

\* what __main__ does with the models a search returned: rank with --top,
\* --sort and --require-weights, and show
RankAndShow(a, found) ==
    /\ models' = found
    /\ trace' = RequestTrace(found, a.sort)
    /\ call' = [top_n |-> a.top, sort_mode |-> a.sort,
                require_weights |-> a.require_weights,
                gguf_only |-> FALSE, max_b |-> None, tagSize |-> NoTagPick]
    /\ Shown(rank_models(found, a.top, a.sort, a.require_weights, FALSE, None, NoTagPick),
             "exit")

\* python3 hf_model_search.py --name KEYWORD ..., the command line one of A
MainNameOf(A) ==
    /\ pc = "start"
    /\ \E a \in A :
          /\ a.name # None
          /\ a.tag = None
          /\ args' = a
          /\ RankAndShow(a, search_by_name(hits, a.limit))
    /\ UNCHANGED <<hits, typed, said, otherPrograms>>

\* python3 hf_model_search.py --tag TAG ..., the command line one of A
MainTagOf(A) ==
    /\ pc = "start"
    /\ \E a \in A :
          /\ a.name = None
          /\ a.tag # None
          /\ args' = a
          /\ RankAndShow(a, search_by_tag(a.tag, hits, a.limit))
    /\ UNCHANGED <<hits, typed, said, otherPrograms>>

MainName == MainNameOf(ArgSpace)
MainTag == MainTagOf(ArgSpace)

\* the one-shot searches with the other flags at their defaults
OneShotName == MainNameOf(DefaultArgs)
OneShotTag == MainTagOf(DefaultArgs)

\* python3 hf_model_search.py without --name and --tag: interactive_menu()
MainInteractive ==
    /\ pc = "start"
    /\ \E a \in DefaultArgs : a.name = None /\ a.tag = None /\ args' = a
    /\ pc' = "menu"
    /\ UNCHANGED <<hits, models, call, scored, out, printed, typed, said, trace, otherPrograms>>

\* the list was shown by the interactive menu, not by a one-shot search
Interactive == args.name = None /\ args.tag = None

\* the top menu after choice = input("> ").strip()
MenuStep(choice) ==
    IF choice = ZERO THEN pc' = "exit" /\ said' = Say("Exiting.")
    ELSE IF choice = <<"1">> THEN pc' = "name" /\ said' = Silent
    ELSE IF choice = <<"2">> THEN pc' = "tag" /\ said' = Silent
    ELSE pc' = "menu" /\ said' = Say("Invalid choice")

MenuChoice ==
    /\ pc = "menu"
    /\ \E line \in MenuInputs : typed' = <<line>> /\ MenuStep(Strip(line))
    /\ UNCHANGED <<hits, models, call, args, scored, out, printed, trace, otherPrograms>>

\* the interactive menu's search: rank_models(models, top_n=TOP_N,
\* sort_mode="composite"), then show_top_list, then the menu again
SearchAndShow(found) ==
    /\ models' = found
    /\ trace' = RequestTrace(found, "composite")
    /\ call' = [top_n |-> TOP_N, sort_mode |-> "composite", require_weights |-> FALSE,
                gguf_only |-> FALSE, max_b |-> None, tagSize |-> NoTagPick]
    /\ Shown(rank_models(found, TOP_N, "composite", FALSE, FALSE, None, NoTagPick), "menu")

\* choice 1 after keyword = input(...).strip()
NameStep(keyword) ==
    IF keyword = ZERO
    THEN pc' = "menu" /\ UNCHANGED <<models, call, scored, out, printed, trace>>
    ELSE SearchAndShow(search_by_name(hits, FETCH_LIMIT))

NamePrompt ==
    /\ pc = "name"
    /\ \E line \in NameInputs : typed' = <<line>> /\ NameStep(Strip(line))
    /\ said' = Silent
    /\ UNCHANGED <<hits, args, otherPrograms>>

\* choice 2 after tag = input(...).strip()
TagStep(tag) ==
    IF tag = ZERO
    THEN pc' = "menu" /\ UNCHANGED <<models, call, scored, out, printed, trace>>
    ELSE SearchAndShow(search_by_tag(tag, hits, FETCH_LIMIT))

TagPrompt ==
    /\ pc = "tag"
    /\ \E line \in TagInputs : typed' = <<line>> /\ TagStep(Strip(line))
    /\ said' = Silent
    /\ UNCHANGED <<hits, args, otherPrograms>>

\* idx = int(choice) succeeded with idx = <<n>>, or raised (None): the detail
\* of entry idx, the out-of-range message, or the uncaught ValueError
IndexStep(idx) ==
    IF idx = None THEN pc' = "crashed" /\ said' = Say("ValueError")
    ELSE IF 1 <= idx[1] /\ idx[1] <= Len(out)
    THEN /\ pc' = "list"
         /\ said' = [text |-> "Back to list", detail |-> <<show_model_detail(out[idx[1]])>>]
    ELSE pc' = "list" /\ said' = Say("Out of range; try again.")

\* the selection loop of show_top_list after choice = input("> ").strip(): on
\* 0 it returns, to the menu loop or to the sys.exit(0) of a one-shot search
ListStep(choice) ==
    IF choice = ZERO
    THEN pc' = (IF Interactive THEN "menu" ELSE "exit") /\ said' = Silent
    ELSE IF ~IsDigitStr(choice)
    THEN pc' = "list" /\ said' = Say("Please enter a number (0 to go back).")
    ELSE IndexStep(IntOf(choice))

ListChoice ==
    /\ pc = "list"
    /\ \E line \in ListInputs : typed' = <<line>> /\ ListStep(Strip(line))
    /\ UNCHANGED <<hits, models, call, args, scored, out, printed, trace, otherPrograms>>

\* the ranker and the one-shot command line, up to the list they show
Next == RankCall \/ MainName \/ MainTag

\* the prompts: the interactive menu and the selection loop of the list
MenuNext ==
    \/ OneShotName
    \/ OneShotTag
    \/ MainInteractive
    \/ MenuChoice
    \/ NamePrompt
    \/ TagPrompt
    \/ ListChoice

MenuSpec == Init /\ [][MenuNext]_vars

Spec == Init /\ [][Next]_vars

-----------------------------------------------------------------------------
(* The state machine of storage_organize.py                                *)

\* the search CLI does not run
RankIdle ==
    /\ pc = "start"
    /\ hits = <<>>
    /\ models = <<>>
    /\ call = NoCall
    /\ args = NoArgs
    /\ scored = <<>>
    /\ out = <<>>
    /\ printed = NothingPrinted
    /\ typed = None
    /\ said = Silent
    /\ trace = <<>>

StorageInit ==
    /\ tree \in Trees
    /\ fscall = NoFsCall
    /\ RankIdle
    /\ MenusIdle
    /\ CrawlIdle

\* helper fn was called on the directory and left r
FsReturned(fn, os_name, dry_run, r) ==
    /\ tree' = r.tree
    /\ fscall' = [fn |-> fn, dry_run |-> dry_run, os_name |-> os_name, before |-> tree,
                  raised |-> r.raised]

EnsureStandardFolders ==
    /\ \E dry_run \in BOOLEAN, os_name \in OsNames :
          FsReturned("ensure_standard_folders", os_name, dry_run,
                     ensure_standard_folders(tree, dry_run))
    /\ UNCHANGED <<rankVars, menuVars, crawlVars>>

NormalizeFilenames ==
    /\ \E dry_run \in BOOLEAN, os_name \in OsNames, entries \in Listings(tree) :
          FsReturned("normalize_filenames", os_name, dry_run,
                     normalize_filenames(tree, os_name, dry_run, entries))
    /\ UNCHANGED <<rankVars, menuVars, crawlVars>>

StorageNext == EnsureStandardFolders \/ NormalizeFilenames

StorageSpec == StorageInit /\ [][StorageNext]_vars

-----------------------------------------------------------------------------
(* The management menus: OllamaTrauma-python/ollama_trauma.py (main_menu,  *)
(* select_model_interactive, advanced_operations, with the Ansible mode)   *)
(* and OllamaTrauma.py (main_menu, delete_models_menu)                     *)

PYTHON_TOOL == "ollama_trauma.py"
LEGACY_TOOL == "OllamaTrauma.py"

\* the variables detect_ansible looks for
ansible_vars ==
    {"ANSIBLE_STDOUT_CALLBACK", "ANSIBLE_REMOTE_USER", "ANSIBLE_PLAYBOOK", "ANSIBLE_INVENTORY"}
detect_ansible(env) == \E v \in ansible_vars : v \in DOMAIN env
\* os.environ.get(name, default)
EnvGet(env, name, default) == IF name \in DOMAIN env THEN env[name] ELSE default

\* self.is_ansible; OllamaTrauma.py has no Ansible mode
is_ansible == prog = PYTHON_TOOL /\ detect_ansible(environ)

\* int(line): <<n>>, or None for the ValueError; surrounding whitespace and
\* one sign are accepted
PyInt(line) ==
    LET s == Strip(line)
        signed == s # <<>> /\ Head(s) \in {"-", "+"}
        digits == IF signed THEN Tail(s) ELSE s
    IN  IF digits # <<>> /\ \A i \in DOMAIN digits : IsDigit(digits[i])
        THEN <<IF Head(s) = "-" THEN 0 - DecimalValue(digits) ELSE DecimalValue(digits)>>
        ELSE None

YES == <<"y", "e", "s">>

\* a confirmation test that every answer passes
ConfirmedAlways(p, line) == TRUE

\* the confirmation tests: confirm == 'y' after lower() in ollama_trauma.py,
\* confirm.lower() in ['y', 'yes'] in OllamaTrauma.py
Confirmed(p, line) ==
    IF p = PYTHON_TOOL THEN Lower(line) = <<"y">> ELSE Lower(line) \in {<<"y">>, YES}

\* remove_model / delete_model: `ollama rm name` is run and succeeds or fails
OllamaRm(name, ok) ==
    /\ removal' = <<name>>
    /\ installed' = IF ok THEN SelectSeq(installed, LAMBDA m : m # name) ELSE installed

\* what `ollama list` can report after install_and_run_model /
\* install_update_run_models: mistral is pulled when it is missing, and the
\* pull can fail
Pulled ==
    {installed}
    \cup (IF \E i \in DOMAIN installed : installed[i] = "mistral" THEN {}
          ELSE {Append(installed, "mistral")})

\* main_menu of ollama_trauma.py after one operation: Ansible mode leaves the
\* loop, the interactive mode shows the menu again
AfterOperation == IF is_ansible THEN "returned" ELSE "main"

\* the lines typed at a menu, at an index prompt and at a confirmation
MenuLines == {<<"1">>, <<"2">>, <<"3">>, <<"4">>, <<"5">>, <<" ", "3">>, <<"x">>}
SelectLines == {<<"1">>, <<"7">>, <<"x">>}
IndexLines == {<<"0">>, <<"1">>, <<" ", "2">>, <<"3">>, <<"-", "1">>, <<"x">>, <<>>}
ConfirmLines == {<<"y">>, <<"Y">>, YES, <<"n">>, <<"y", " ">>, <<>>}
\* the values of ANSIBLE_MAIN_CHOICE and ANSIBLE_ADVANCED_CHOICE
ChoiceValues == {<<"1">>, <<"2">>, <<"3">>, <<"4">>, <<"5">>, <<"x">>}

\* the environments: without a detection variable the choice variables are
\* unset, or set and ignored
ChoiceEnvirons ==
    UNION {[names -> ChoiceValues] :
              names \in SUBSET {"ANSIBLE_MAIN_CHOICE", "ANSIBLE_ADVANCED_CHOICE"}}
AnsibleEnvirons ==
    {[n \in DOMAIN e \cup {"ANSIBLE_PLAYBOOK"} |->
         IF n = "ANSIBLE_PLAYBOOK" THEN <<"s", "i", "t", "e">> ELSE e[n]] : e \in ChoiceEnvirons}
InteractiveEnvirons ==
    {e \in ChoiceEnvirons :
        \A n \in DOMAIN e : e[n] = (IF n = "ANSIBLE_MAIN_CHOICE" THEN <<"3">> ELSE <<"1">>)}
InstalledLists == {<<>>, <<"mistral">>, <<"llama2">>, <<"llama2", "mistral">>}

MenusInit ==
    /\ prog \in {PYTHON_TOOL, LEGACY_TOOL}
    /\ environ \in IF prog = PYTHON_TOOL THEN AnsibleEnvirons \cup InteractiveEnvirons
                   ELSE InteractiveEnvirons
    /\ installed \in InstalledLists
    /\ mpc = "main"
    /\ shown = <<>>
    /\ picked = None
    /\ entered = None
    /\ removal = None
    /\ RankIdle
    /\ StorageIdle
    /\ CrawlIdle

\* what a menu step leaves alone outside the menus
MenuFrame == UNCHANGED <<prog, environ, rankVars, storageVars, crawlVars>>

\* main_menu of ollama_trauma.py on choice
MainStep(choice) ==
    IF choice = <<"1">> THEN installed' \in Pulled /\ mpc' = AfterOperation
    ELSE IF choice = <<"2">> THEN mpc' = "select" /\ UNCHANGED installed
    ELSE IF choice = <<"3">> THEN mpc' = "advanced" /\ UNCHANGED installed
    ELSE IF choice = <<"5">> THEN mpc' = "returned" /\ UNCHANGED installed
    ELSE mpc' = AfterOperation /\ UNCHANGED installed

MainMenu ==
    /\ prog = PYTHON_TOOL
    /\ mpc = "main"
    /\ IF is_ansible
       THEN entered' = None /\ MainStep(EnvGet(environ, "ANSIBLE_MAIN_CHOICE", <<"1">>))
       ELSE \E line \in MenuLines : entered' = <<line>> /\ MainStep(Strip(line))
    /\ removal' = None
    /\ UNCHANGED <<shown, picked>>
    /\ MenuFrame

\* select_model_interactive: input() in either mode; the choices 1 to 7 leave
\* the loop, another line repeats the prompt, and the EOFError of a closed
\* standard input is not caught
SelectModel ==
    /\ prog = PYTHON_TOOL
    /\ mpc = "select"
    /\ \/ \E line \in SelectLines :
            /\ entered' = <<line>>
            /\ mpc' = IF Strip(line) \in {<<"1">>, <<"2">>, <<"3">>, <<"4">>, <<"5">>, <<"6">>,
                                          <<"7">>}
                      THEN AfterOperation ELSE "select"
       \/ entered' = None /\ mpc' = "crashed"
    /\ removal' = None
    /\ UNCHANGED <<installed, shown, picked>>
    /\ MenuFrame

\* one pass of the loop of advanced_operations on choice, up to the index
\* prompt of the removal or to the end of the loop body
AdvancedStep(choice) ==
    IF choice = <<"2">> /\ installed # <<>>
    THEN shown' = installed /\ mpc' = (IF is_ansible THEN "advanced_end" ELSE "remove_index")
    ELSE IF choice = <<"5">> THEN mpc' = AfterOperation /\ UNCHANGED shown
    ELSE mpc' = "advanced_end" /\ UNCHANGED shown

AdvancedOperations ==
    /\ prog = PYTHON_TOOL
    /\ mpc = "advanced"
    /\ IF is_ansible
       THEN entered' = None /\ AdvancedStep(EnvGet(environ, "ANSIBLE_ADVANCED_CHOICE", <<"5">>))
       ELSE \E line \in MenuLines : entered' = <<line>> /\ AdvancedStep(Strip(line))
    /\ removal' = None
    /\ UNCHANGED <<installed, picked>>
    /\ MenuFrame

\* the end of the loop body of advanced_operations: pause(), which returns at
\* once in Ansible mode, and `while True` again
AdvancedAgain ==
    /\ prog = PYTHON_TOOL
    /\ mpc = "advanced_end"
    /\ mpc' = "advanced"
    /\ entered' = None
    /\ removal' = None
    /\ UNCHANGED <<installed, shown, picked>>
    /\ MenuFrame

\* idx = int(input(...)) - 1 and `if 0 <= idx < len(models)`; the ValueError
\* is passed over
RemoveIndex ==
    /\ prog = PYTHON_TOOL
    /\ mpc = "remove_index"
    /\ \E line \in IndexLines :
          /\ entered' = <<line>>
          /\ IF PyInt(line) # None /\ 0 <= PyInt(line)[1] - 1 /\ PyInt(line)[1] - 1 < Len(shown)
             THEN picked' = <<shown[PyInt(line)[1]]>> /\ mpc' = "remove_confirm"
             ELSE picked' = None /\ mpc' = "advanced_end"
    /\ removal' = None
    /\ UNCHANGED <<installed, shown>>
    /\ MenuFrame

\* the answer to the confirmation prompt, and the removal it allows
ConfirmStep(line, back) ==
    /\ entered' = <<line>>
    /\ IF Confirmed(prog, line)
       THEN \E ok \in BOOLEAN : OllamaRm(picked[1], ok)
       ELSE removal' = None /\ UNCHANGED installed
    /\ mpc' = back
    /\ UNCHANGED <<shown, picked>>
    /\ MenuFrame

RemoveConfirm ==
    /\ prog = PYTHON_TOOL
    /\ mpc = "remove_confirm"
    /\ \E line \in ConfirmLines : ConfirmStep(line, "advanced_end")

\* main_menu of OllamaTrauma.py on choice: 4 is delete_models_menu up to its
\* index prompt, 5 is sys.exit(0)
LegacyStep(choice) ==
    IF choice = <<"1">> THEN installed' \in Pulled /\ mpc' = "pause" /\ UNCHANGED shown
    ELSE IF choice = <<"4">> /\ installed # <<>>
    THEN shown' = installed /\ mpc' = "delete_index" /\ UNCHANGED installed
    ELSE IF choice = <<"5">> THEN mpc' = "returned" /\ UNCHANGED <<installed, shown>>
    ELSE mpc' = "pause" /\ UNCHANGED <<installed, shown>>

LegacyMainMenu ==
    /\ prog = LEGACY_TOOL
    /\ mpc = "main"
    /\ \E line \in MenuLines : entered' = <<line>> /\ LegacyStep(Strip(line))
    /\ removal' = None
    /\ UNCHANGED picked
    /\ MenuFrame

\* choice = int(input(...)) and `if 1 <= choice <= len(models)`; the entry
\* len(models) + 1, any other number and the ValueError go back
DeleteIndex ==
    /\ prog = LEGACY_TOOL
    /\ mpc = "delete_index"
    /\ \E line \in IndexLines :
          /\ entered' = <<line>>
          /\ IF PyInt(line) # None /\ 1 <= PyInt(line)[1] /\ PyInt(line)[1] <= Len(shown)
             THEN picked' = <<shown[PyInt(line)[1]]>> /\ mpc' = "delete_confirm"
             ELSE picked' = None /\ mpc' = "pause"
    /\ removal' = None
    /\ UNCHANGED <<installed, shown>>
    /\ MenuFrame

DeleteConfirm ==
    /\ prog = LEGACY_TOOL
    /\ mpc = "delete_confirm"
    /\ \E line \in ConfirmLines : ConfirmStep(line, "pause")

\* input("\nPress Enter to continue...") at the end of the loop body
LegacyPause ==
    /\ prog = LEGACY_TOOL
    /\ mpc = "pause"
    /\ mpc' = "main"
    /\ entered' = None
    /\ removal' = None
    /\ UNCHANGED <<installed, shown, picked>>
    /\ MenuFrame

MenusNext ==
    \/ MainMenu
    \/ SelectModel
    \/ AdvancedOperations
    \/ AdvancedAgain
    \/ RemoveIndex
    \/ RemoveConfirm
    \/ LegacyMainMenu
    \/ DeleteIndex
    \/ DeleteConfirm
    \/ LegacyPause

MenusSpec == MenusInit /\ [][MenusNext]_vars

\* the interpreter keeps running the program, and a prompt is answered
MenusFairSpec == MenusSpec /\ WF_vars(MenusNext)

-----------------------------------------------------------------------------
(* scripts/python/url_crawler.py: crawl_url(url, depth, visited).  A site  *)
(* is the start URL, the --depth argument, the links of every page in      *)
(* document order (as urljoin resolves them) and the URLs whose request or *)
(* processing raises.  The recursion is a stack of frames, the innermost   *)
(* call last.                                                              *)

Url(netloc, path) == [netloc |-> netloc, path |-> path]
HOME == Url("a.example", "/")
PAGE == Url("a.example", "/p")
DEEP == Url("a.example", "/p/q")
ELSEWHERE == Url("b.example", "/")
UrlList == <<HOME, PAGE, DEEP, ELSEWHERE>>
Urls == {UrlList[i] : i \in DOMAIN UrlList}

MaxDepth == 2
MaxLinks == 2
\* the values of --depth: argparse's type=int accepts a negative number
Depths == (0 - 1)..MaxDepth
\* the link lists of a page: at most MaxLinks links
LinkLists ==
    {SelectSeq(UrlList, LAMBDA u : u \in S) : S \in {T \in SUBSET Urls : Cardinality(T) <= MaxLinks}}
\* the pages of the start host link anywhere; the other host's page is a leaf
Sites ==
    {[start |-> HOME, depth |-> d, fails |-> f,
      links |-> [u \in Urls |-> IF u = ELSEWHERE THEN <<>> ELSE l[u]]] :
        d \in Depths, f \in {{}, {PAGE}}, l \in [Urls \ {ELSEWHERE} -> LinkLists]}

\* a call of crawl_url that has not run its first test yet, and a call that
\* is in its loop over the links of its page, with the links still to come
Pending(url, depth) == [url |-> url, depth |-> depth, at |-> "call", todo |-> <<>>]
InLoop(frame, todo) == [url |-> frame.url, depth |-> frame.depth, at |-> "links", todo |-> todo]

Top == frames[Len(frames)]
Pop == SubSeq(frames, 1, Len(frames) - 1)

\* `if depth == 0 or url in visited: return`
Refuses(depth, url) == depth = 0 \/ url \in visited

CrawlInit ==
    /\ site \in Sites
    /\ frames = <<Pending(site.start, site.depth)>>
    /\ visited = {}
    /\ requested = <<>>
    /\ RankIdle
    /\ StorageIdle
    /\ MenusIdle

CrawlFrame == UNCHANGED <<site, rankVars, storageVars, menuVars>>

\* the call on top of the stack runs up to its loop: it returns at once, or
\* marks the URL visited and requests it; an exception ends the call
CrawlEnter ==
    /\ frames # <<>>
    /\ Top.at = "call"
    /\ IF Refuses(Top.depth, Top.url)
       THEN frames' = Pop /\ UNCHANGED <<visited, requested>>
       ELSE /\ visited' = visited \cup {Top.url}
            /\ requested' = Append(requested, Top.url)
            /\ frames' = IF Top.url \in site.fails THEN Pop
                         ELSE Append(Pop, InLoop(Top, site.links[Top.url]))
    /\ CrawlFrame

\* one pass of the loop over the links: a link to the same netloc is crawled
\* with depth - 1
CrawlFollow ==
    /\ frames # <<>>
    /\ Top.at = "links"
    /\ Top.todo # <<>>
    /\ frames' = Append(Pop, InLoop(Top, Tail(Top.todo)))
                 \o (IF Head(Top.todo).netloc = Top.url.netloc
                     THEN <<Pending(Head(Top.todo), Top.depth - 1)>> ELSE <<>>)
    /\ UNCHANGED <<visited, requested>>
    /\ CrawlFrame

\* the loop is over: the call returns
CrawlReturn ==
    /\ frames # <<>>
    /\ Top.at = "links"
    /\ Top.todo = <<>>
    /\ frames' = Pop
    /\ UNCHANGED <<visited, requested>>
    /\ CrawlFrame

CrawlNext == CrawlEnter \/ CrawlFollow \/ CrawlReturn

CrawlSpec == CrawlInit /\ [][CrawlNext]_vars

\* the interpreter keeps running the crawl
CrawlFairSpec == CrawlSpec /\ WF_vars(CrawlNext)

-----------------------------------------------------------------------------
(* Vocabulary of the properties                                            *)

\* rank_models has returned
Ranked == pc # "start"

\* the weight types the catalog's file listing gives the listed model k
CatalogWeightsOf == [k \in Keys |-> WeightTypes(ResolveId(Listing[k]))]
CatalogWeights(k) == CatalogWeightsOf[k]
CatalogHas(k, w) == \E i \in DOMAIN CatalogWeights(k) : CatalogWeights(k)[i] = w

\* the candidates of the batch whose id resolves
Resolvable(ms) == {i \in DOMAIN ms : ResolveId(Listing[ms[i]]) # <<>>}

\* the position in the batch of the listed model k
InputPos(k) == CHOOSE i \in DOMAIN models : models[i] = k

IsReturned(k) == \E i \in DOMAIN out : out[i].model = k

Min(a, b) == IF a <= b THEN a ELSE b

\* the sizes the tags of listed model k carry
TagSizesOf == [k \in Keys |-> {_parse_b_from_id(t) : t \in CollectTags(Listing[k])} \ {None}]
TagSizes(k) == TagSizesOf[k]

\* the size the id of listed model k carries
IdSizeOf == [k \in Keys |-> _parse_b_from_id(ResolveId(Listing[k]))]

\* the max-b rule as section 4.2 of the specification words it, for the size
\* the tag enumeration left: a size from the id, else from the tags, is tested
\* against max-b; with no size anywhere the weight types decide
RuleKeeps(k, max_b, tagSize) ==
    LET fromId == IdSizeOf[k]
        size == IF fromId # None THEN fromId
                ELSE IF TagSizes(k) = {} THEN None
                ELSE IF tagSize[k] # None THEN tagSize[k]
                ELSE CHOOSE z \in TagSizes(k) : TRUE
    IN  IF size # None THEN size[1] <= max_b[1] * size[2]
        ELSE CatalogWeights(k) # <<>>

\* candidate i of batch ms passes the filters that call c enables
PassesFilters(ms, i, c) ==
    /\ c.require_weights => CatalogWeights(ms[i]) # <<>>
    /\ c.gguf_only => CatalogHas(ms[i], "gguf")
    /\ c.max_b # None => RuleKeeps(ms[i], c.max_b, c.tagSize)

-----------------------------------------------------------------------------
(* C1: for every sort mode, every topN >= 0 and every combination of the   *)
(* filters, rank_models returns at most min(topN, number of candidates     *)
(* that pass the enabled filters) results.  (Stated for topN >= 0; a       *)
(* negative topN breaks the bound in every mode.)                          *)
C1_LengthBound ==
    (pc = "ranked" /\ call.top_n >= 0)
        => Len(out) <= Min(call.top_n,
                           Cardinality({i \in Resolvable(models) : PassesFilters(models, i, call)}))

(* C2: with require_weights enabled, in any sort mode, no returned result  *)
(* has an empty weight-type set.                                           *)
C2_RequireWeights ==
    (pc = "ranked" /\ call.require_weights)
        => \A i \in DOMAIN out : CatalogWeights(out[i].model) # <<>>

(* C3: with max-b = 7, org/model-13b (no weight files) is dropped, and     *)
(* org/model-13b-GGUF (a .gguf file in its listing) is kept: it is         *)
(* returned when topN does not truncate the list.  (Stated for the         *)
(* composite mode, the one that applies max-b at all.)                     *)
C3_MaxBExample ==
    (pc = "ranked" /\ call.max_b = <<7>> /\ call.sort_mode = "composite")
        => /\ \A i \in DOMAIN out : out[i].repo_id # ID_MODEL_13B
           /\ ((\E i \in DOMAIN models : Listing[models[i]].modelId = ID_MODEL_13B_GGUF)
                /\ call.top_n >= Len(models))
               => \E i \in DOMAIN out : out[i].repo_id = ID_MODEL_13B_GGUF

(* C4: in sort mode downloads (likes) the results are in non-increasing    *)
(* order of downloads (likes), and candidates with an equal metric keep    *)
(* their relative order of the input list.                                 *)
MetricOf(mode, e) ==
    IF mode = "downloads" THEN get_downloads_safe(e.repo_id) ELSE get_likes_safe(e.repo_id)

C4_SortedStable ==
    (Ranked /\ call.sort_mode \in {"downloads", "likes"})
        => \A i, j \in DOMAIN out :
              i < j => /\ MetricOf(call.sort_mode, out[i]) >= MetricOf(call.sort_mode, out[j])
                       /\ MetricOf(call.sort_mode, out[i]) = MetricOf(call.sort_mode, out[j])
                            => InputPos(out[i].model) < InputPos(out[j].model)

\* a downloads ranking of three results that moved a later candidate ahead and
\* kept two candidates of equal downloads
C4_Witness ==
    /\ pc = "ranked"
    /\ call.sort_mode = "downloads"
    /\ Len(out) >= 3
    /\ \E i, j \in DOMAIN out :
          i < j /\ InputPos(out[i].model) > InputPos(out[j].model)
    /\ \E i, j \in DOMAIN out :
          i < j /\ MetricOf("downloads", out[i]) = MetricOf("downloads", out[j])

(* C5: in composite mode each returned candidate's score equals            *)
(* downloadsNorm*0.45 + likesNorm*0.25 + recencyNorm*0.15 + tagBoost +     *)
(* weightBoost + ownerBoost computed from that candidate's own metrics.    *)
BatchIds == {ResolveId(Listing[models[i]]) : i \in Resolvable(models)}
MaxDownloads == Max({get_downloads_safe(id) : id \in BatchIds})
MaxLikes == Max({get_likes_safe(id) : id \in BatchIds})
MaxRecencyDays == Max({RecencyDays(get_lastmodified_safe(id)) : id \in BatchIds})

\* the claimed score of listed model k, in twentieths over ClaimedDen
ClaimedBoosts(k) ==
    LET m == Listing[k]
        lowTags == {Lower(t) : t \in CollectTags(m)}
    IN  (IF TAG_TEXT_GENERATION \in lowTags \/ Contains(m.pipeline_tag, TAG_TEXT_GENERATION)
         THEN 4 ELSE 0)
        + (IF TAG_TRANSFORMERS \in lowTags THEN 3 ELSE 0)
        + (IF CatalogHas(k, "gguf") THEN 7 ELSE 0)
        + (IF CatalogHas(k, "safetensors") THEN 4 ELSE 0)
        + (IF CatalogHas(k, "pytorch") THEN 2 ELSE 0)
        + (IF SplitFirst(ResolveId(m)) \in TrustedOrgs THEN 5 ELSE 0)
ClaimedDen == 20 * Floor1(MaxDownloads) * Floor1(MaxLikes) * Floor1(MaxRecencyDays)
ClaimedNum(k) ==
    LET id == ResolveId(Listing[k])
    IN  9 * get_downloads_safe(id) * Floor1(MaxLikes) * Floor1(MaxRecencyDays)
        + 5 * get_likes_safe(id) * Floor1(MaxDownloads) * Floor1(MaxRecencyDays)
        + 3 * (MaxRecencyDays - RecencyDays(get_lastmodified_safe(id)))
            * Floor1(MaxDownloads) * Floor1(MaxLikes)
        + ClaimedBoosts(k) * Floor1(MaxDownloads) * Floor1(MaxLikes) * Floor1(MaxRecencyDays)

C5_ScoreFormula ==
    (pc = "ranked" /\ call.sort_mode = "composite")
        => \A i \in DOMAIN out : \A j \in DOMAIN scored :
              scored[j].x.model = out[i].model
                  => scored[j].score * ClaimedDen = ClaimedNum(out[i].model) * scored[j].den

(* C6: the composite score of a candidate is monotonically non-decreasing  *)
(* in each of its downloads, likes, recency (more recent), weight-type     *)
(* count and trusted-owner membership, the other inputs held fixed.        *)
MaxDays == 3

\* the probed items of the batch that was ranked
ProbedBatch == [i \in DOMAIN FetchItems(models) |-> Probe(FetchItems(models)[i])]

\* the list of weight types ws with w added, in the order the probe appends
WithWeight(ws, w) ==
    SelectSeq(<<"gguf", "safetensors", "pytorch">>,
              LAMBDA t : t = w \/ \E n \in DOMAIN ws : ws[n] = t)

\* the batches that differ from P in candidate i alone, which has one more
\* download, one more like, a more recent timestamp, one more weight type or
\* a trusted owner
Raised(P, i) ==
    {[P EXCEPT ![i].downloads = @ + 1], [P EXCEPT ![i].likes = @ + 1]}
    \cup {[P EXCEPT ![i].lastmod = <<d, TRUE>>] :
            d \in {e \in 0..MaxDays : e < RecencyDays(P[i].lastmod)}}
    \cup {[P EXCEPT ![i].weight_types = WithWeight(@, w)] :
            w \in {t \in {"gguf", "safetensors", "pytorch"} : ~HasWeight(P[i], t)}}
    \cup {[P EXCEPT ![i].owner = <<"m", "e", "t", "a">>] : z \in {0} \ {n \in {0} : P[i].owner \in TrustedOrgs}}

\* the scores, as <<numerator, denominator>>, that ranking P under call c gives
\* to listed model k
ScoresOf(P, c, k) ==
    LET S == CompositeOn(P, c.gguf_only, c.max_b, c.tagSize)
    IN  {<<S[j].score, S[j].den>> : j \in {n \in DOMAIN S : S[n].x.model = k}}

MonotoneUnder(c) ==
    \A i \in DOMAIN ProbedBatch : \A Q \in Raised(ProbedBatch, i) :
        \A a \in ScoresOf(ProbedBatch, c, ProbedBatch[i].model) :
            \A b \in ScoresOf(Q, c, ProbedBatch[i].model) :
                a[1] * b[2] <= b[1] * a[2]

C6_Monotone ==
    (pc = "ranked" /\ call.sort_mode = "composite") => MonotoneUnder(call)

(* C7: with gguf-only enabled, in any sort mode, no returned result lacks  *)
(* gguf among its weight types.                                            *)
C7_GgufOnly ==
    (pc = "ranked" /\ call.gguf_only)
        => \A i \in DOMAIN out : CatalogHas(out[i].model, "gguf")

(* C8: with max-b set, a candidate is kept if and only if the max-b rule   *)
(* keeps it: the size in its id, else in its tags, is <= max-b, or with no *)
(* size anywhere its weight-type set is non-empty.  (Stated with the other *)
(* filters off and topN not truncating, so that kept means returned.)      *)
C8_MaxBRule ==
    (/\ pc = "ranked"
     /\ call.max_b # None
     /\ ~call.gguf_only
     /\ ~call.require_weights
     /\ call.top_n >= Len(models))
        => \A i \in Resolvable(models) :
              IsReturned(models[i]) <=> RuleKeeps(models[i], call.max_b, call.tagSize)

(* C9: the command line run with --name or --tag and --gguf-only or        *)
(* --max-b N displays the results of the ranker with that filter enabled.  *)
C9_CliFilters ==
    (pc \in {"list", "exit"} /\ (args.gguf_only \/ args.max_b # None))
        => \E tagSize \in IF args.max_b # None THEN TagPicks ELSE {NoTagPick} :
              printed = show_top_list(rank_models(models, args.top, args.sort,
                                                  args.require_weights, args.gguf_only,
                                                  args.max_b, tagSize).out)

(* C10: in every sort mode the integer returned with each result as its    *)
(* display metric, and printed after "downloads:", is that candidate's     *)
(* download count.                                                         *)
C10_DisplayMetric ==
    Ranked
        => /\ \A i \in DOMAIN out : out[i].dl = get_downloads_safe(out[i].repo_id)
           /\ \A i \in DOMAIN printed.lines :
                 printed.lines[i].downloads = get_downloads_safe(out[i].repo_id)

(* C11: when every catalog request for exactly one candidate of the batch  *)
(* raises, rank_models still returns: that candidate counts as downloads   *)
(* 0, likes 0, no timestamp and no weight types, and every other candidate *)
(* with a resolvable id that passes the enabled filters is returned when   *)
(* topN does not truncate the list.                                        *)
LookupsFail(k) ==
    /\ ResolveId(Listing[k]) # <<>>
    /\ ~ModelInfo(ResolveId(Listing[k])).ok
    /\ ~ListRepoFiles(ResolveId(Listing[k])).ok

C11_FailureAbsorbed ==
    (pc = "ranked" /\ Cardinality({i \in DOMAIN models : LookupsFail(models[i])}) = 1)
        => /\ \A i \in DOMAIN out :
                 LookupsFail(out[i].model)
                     => /\ out[i].dl = 0
                        /\ out[i].meta # None
                             => /\ out[i].meta[1].downloads = 0
                                /\ out[i].meta[1].likes = 0
                                /\ out[i].meta[1].lastmod = None
                                /\ out[i].meta[1].weight_types = <<>>
           /\ call.top_n >= Len(models)
                => \A i \in Resolvable(models) :
                      (~LookupsFail(models[i]) /\ PassesFilters(models, i, call))
                          => IsReturned(models[i])

\* a composite ranking of three candidates, the first of which fails every
\* lookup: all three are returned
C11_Witness ==
    /\ pc = "ranked"
    /\ call.sort_mode = "composite"
    /\ Len(models) = 3
    /\ LookupsFail(models[1])
    /\ Len(out) = 3
    /\ \E i \in DOMAIN out : out[i].model = models[1] /\ out[i].meta[1].lastmod = None

(* C12: a candidate whose id cannot be resolved (modelId and id missing or *)
(* empty) is in no list rank_models returns, in any sort mode and with any *)
(* filters, and no metric is requested for it.                             *)
\* the ids rank_models requests metrics for: those of the items it builds
Requested(ms) == {x.repo_id : x \in Range(FetchItems(ms))}

C12_UnresolvableDropped ==
    pc = "ranked"
        => /\ \A i \in DOMAIN out :
                 ResolveId(Listing[out[i].model]) # <<>> /\ out[i].repo_id # <<>>
           /\ \A j \in DOMAIN scored : ResolveId(Listing[scored[j].x.model]) # <<>>
           /\ <<>> \notin Requested(models)
           /\ Cardinality(Requested(models)) = Cardinality(Resolvable(models))

\* a batch of three with one unresolvable candidate, the two others returned
C12_Witness ==
    /\ pc = "ranked"
    /\ Len(models) = 3
    /\ Cardinality(Resolvable(models)) = 2
    /\ Len(out) = 2

(* C13: the owner of a candidate is the part of its id before the first    *)
(* "/", and is empty when the id has no "/"; ownerBoost is 0.25 exactly    *)
(* when that owner is on the trusted list.                                 *)
ClaimedOwner(id) ==
    IF IndexOf(id, "/") = 0 THEN <<>> ELSE SubSeq(id, 1, IndexOf(id, "/") - 1)

C13_Owner ==
    (pc = "ranked" /\ call.sort_mode = "composite")
        => \A j \in DOMAIN scored :
              /\ scored[j].x.owner = ClaimedOwner(scored[j].x.repo_id)
              /\ OwnerBoost(scored[j].x)
                    = (IF ClaimedOwner(scored[j].x.repo_id) \in TrustedOrgs THEN 5 ELSE 0)

(* C14: in composite mode the recency of a candidate with a timestamp is   *)
(* the whole number of days since it, never negative, 365 without one, and *)
(* maxRecencyDays is the maximum over the batch but at least 1: a batch    *)
(* whose candidates are all 0 days old gives each recencyNorm 1.  (Stated  *)
(* on the score, with the filters off and every timestamp carrying its     *)
(* offset.)                                                                *)
ClaimedRecency(lastmod) ==
    IF lastmod = None THEN 365 ELSE IF lastmod[1] > 0 THEN lastmod[1] ELSE 0
ClaimedMaxRecency ==
    Max({1} \cup {ClaimedRecency(get_lastmodified_safe(id)) : id \in BatchIds})
ClaimedDenFloored == 20 * Floor1(MaxDownloads) * Floor1(MaxLikes) * ClaimedMaxRecency
ClaimedNumFloored(k) ==
    9 * get_downloads_safe(ResolveId(Listing[k])) * Floor1(MaxLikes) * ClaimedMaxRecency
    + 5 * get_likes_safe(ResolveId(Listing[k])) * Floor1(MaxDownloads) * ClaimedMaxRecency
    + 3 * (ClaimedMaxRecency - ClaimedRecency(get_lastmodified_safe(ResolveId(Listing[k]))))
        * Floor1(MaxDownloads) * Floor1(MaxLikes)
    + ClaimedBoosts(k) * Floor1(MaxDownloads) * Floor1(MaxLikes) * ClaimedMaxRecency

AllAware ==
    \A id \in BatchIds : get_lastmodified_safe(id) = None \/ get_lastmodified_safe(id)[2]

C14_Recency ==
    (/\ pc = "ranked"
     /\ call.sort_mode = "composite"
     /\ ~call.gguf_only
     /\ call.max_b = None
     /\ AllAware)
        => \A j \in DOMAIN scored :
              scored[j].score * ClaimedDenFloored
                  = ClaimedNumFloored(scored[j].x.model) * scored[j].den

(* C15: in composite mode the returned list is in non-increasing order of  *)
(* the composite score, candidates of equal score in input order, also     *)
(* with requireWeights, gguf-only or max-b enabled.                        *)
C15_CompositeOrder ==
    (pc = "ranked" /\ call.sort_mode = "composite")
        => \A i, j \in DOMAIN out :
              i < j => /\ ClaimedNum(out[i].model) >= ClaimedNum(out[j].model)
                       /\ ClaimedNum(out[i].model) = ClaimedNum(out[j].model)
                            => InputPos(out[i].model) < InputPos(out[j].model)

(* C16: in composite mode a batch whose candidates have equal likes, equal *)
(* recency, no tag, weight or owner boost and different downloads is       *)
(* returned in strictly descending order of downloads whatever the input   *)
(* order: downloads 100, 50 and 10 come out in that order.                 *)
PlainBatch ==
    /\ Resolvable(models) = DOMAIN models
    /\ \A i, j \in DOMAIN models :
          /\ get_likes_safe(ResolveId(Listing[models[i]]))
                = get_likes_safe(ResolveId(Listing[models[j]]))
          /\ RecencyDays(get_lastmodified_safe(ResolveId(Listing[models[i]])))
                = RecencyDays(get_lastmodified_safe(ResolveId(Listing[models[j]])))
          /\ i # j => get_downloads_safe(ResolveId(Listing[models[i]]))
                        # get_downloads_safe(ResolveId(Listing[models[j]]))
    /\ \A i \in DOMAIN models : ClaimedBoosts(models[i]) = 0

C16_DownloadsDominate ==
    (pc = "ranked" /\ call.sort_mode = "composite" /\ PlainBatch)
        => /\ \A i, j \in DOMAIN out :
                 i < j => get_downloads_safe(out[i].repo_id) > get_downloads_safe(out[j].repo_id)
           /\ (call.top_n >= Len(models) /\ ~call.gguf_only /\ call.max_b = None
                    /\ ~call.require_weights)
                => Len(out) = Len(models)

\* the batch with downloads 10, 100, 50 in that order, returned as 100, 50, 10
C16_Witness ==
    /\ pc = "ranked"
    /\ call.sort_mode = "composite"
    /\ PlainBatch
    /\ Len(models) = 3
    /\ [i \in DOMAIN models |-> get_downloads_safe(ResolveId(Listing[models[i]]))]
          = <<10, 100, 50>>
    /\ [i \in DOMAIN out |-> out[i].dl] = <<100, 50, 10>>

TypedZero == typed' # None /\ Strip(typed'[1]) = ZERO
\* the program has ended, by returning or by an uncaught exception
Ended(p) == p \in {"exit", "crashed"}

C18_ZeroGoesBack ==
    [][/\ (pc = "menu" /\ TypedZero) => pc' = "exit"
       /\ (pc \in {"name", "tag"} /\ TypedZero) => pc' = "menu"
       /\ (pc = "list" /\ TypedZero) => pc' = (IF Interactive THEN "menu" ELSE "exit")
       /\ (Interactive /\ pc # "start" /\ ~Ended(pc) /\ Ended(pc'))
              => (pc = "menu" /\ TypedZero)]_vars

(* C19: at the result-list prompt a selection that is not a number or is   *)
(* out of range is reported and the prompt comes again: it never ends the  *)
(* program and never changes the list; a valid index 1..len(list) shows    *)
(* the detail of exactly that entry and comes back to the same list.       *)
\* the number a selection denotes: a string of decimal digits
ClaimedIndex(choice) ==
    IF choice # <<>> /\ \A i \in DOMAIN choice : IsDigit(choice[i])
    THEN <<DecimalValue(choice)>> ELSE None
ValidIndex(choice) ==
    /\ ClaimedIndex(choice) # None
    /\ 1 <= ClaimedIndex(choice)[1]
    /\ ClaimedIndex(choice)[1] <= Len(out)

C19_Selection ==
    [][pc = "list"
         => /\ out' = out
            /\ printed' = printed
            /\ (Strip(typed'[1]) # ZERO /\ ~ValidIndex(Strip(typed'[1])))
                  => /\ pc' = "list"
                     /\ said'.detail = None
                     /\ said'.text \in {"Please enter a number (0 to go back).",
                                        "Out of range; try again."}
            /\ ValidIndex(Strip(typed'[1]))
                  => /\ pc' = "list"
                     /\ said'.detail
                          = <<show_model_detail(out[ClaimedIndex(Strip(typed'[1]))[1]])>>]_vars

(* C20: a search started from the interactive menu fetches up to           *)
(* fetch_limit matches and shows the top 10 of them ordered by download    *)
(* count.                                                                  *)
C20_InteractiveByDownloads ==
    (pc # "start" /\ Interactive)
        => /\ Len(models) <= FETCH_LIMIT
           /\ Len(out) = Min(TOP_N, Cardinality(Resolvable(models)))
           /\ \A i \in DOMAIN printed.lines :
                 printed.lines[i].downloads = get_downloads_safe(out[i].repo_id)
           /\ \A i, j \in DOMAIN out :
                 i < j => get_downloads_safe(out[i].repo_id)
                            >= get_downloads_safe(out[j].repo_id)

(* C24: in composite mode maxDownloads, maxLikes and maxRecencyDays are     *)
(* taken over the full batch of candidates with resolvable ids, including  *)
(* the candidates that gguf-only, max-b or requireWeights remove, so a     *)
(* returned candidate's downloadsNorm and likesNorm are the same whether   *)
(* or not a filter is enabled.                                             *)
\* the candidates of the batch that the ranked list holds
ScoredModels == {scored[j].x.model : j \in DOMAIN scored}

C24_FullBatchFrame ==
    (pc = "ranked" /\ call.sort_mode = "composite")
        => \A j \in DOMAIN scored :
              /\ scored[j].frame = <<MaxDownloads, MaxLikes, MaxRecencyDays>>
              /\ scored[j].x.downloads = get_downloads_safe(scored[j].x.repo_id)
              /\ scored[j].x.likes = get_likes_safe(scored[j].x.repo_id)

\* a filter removed the one candidate with the most downloads and the one
\* with the most likes, and a candidate with fewer of both is returned
C24_Witness ==
    /\ pc = "ranked"
    /\ call.sort_mode = "composite"
    /\ call.gguf_only \/ call.max_b # None \/ call.require_weights
    /\ out # <<>>
    /\ \A i \in DOMAIN out :
          /\ get_downloads_safe(out[i].repo_id) < MaxDownloads
          /\ get_likes_safe(out[i].repo_id) < MaxLikes

(* C25: metric resolution is performed sequentially in candidate input     *)
(* order, and a pause (the fixed sleep) occurs between the catalog         *)
(* requests made for any two different candidates.                         *)
\* the positions of the trace that are requests
Requests == {i \in DOMAIN trace : trace[i].op # "sleep"}
\* the ids of the ranked batch, in input order
IdsInOrder ==
    LET items == FetchItems(models) IN [i \in DOMAIN items |-> items[i].repo_id]
\* the position of id in the batch
IdPos(id) == CHOOSE i \in DOMAIN IdsInOrder : IdsInOrder[i] = id

C25_PausedBetweenCandidates ==
    Ranked
        => /\ \A i, j \in Requests :
                 (i < j /\ trace[i].op = trace[j].op)
                     => IdPos(trace[i].repo) <= IdPos(trace[j].repo)
           /\ \A i, j \in Requests :
                 (i < j /\ trace[i].repo # trace[j].repo)
                     => \E k \in (i + 1)..(j - 1) : trace[k] = Sleep

(* C27: in composite mode, when gguf-only or max-b removes candidates, the  *)
(* recencyNorm in each surviving candidate's score is computed from that   *)
(* candidate's own recency days, not from the recency of the candidate     *)
(* that had its position in the unfiltered batch.                          *)
\* the score of entry e with the recency days of its own candidate
OwnRecencyScore(e) ==
    Score(e.x, RecencyDays(e.x.lastmod), e.frame[1], e.frame[2], e.frame[3])

C27_OwnRecency ==
    (/\ pc = "ranked"
     /\ call.sort_mode = "composite"
     /\ call.gguf_only \/ call.max_b # None
     /\ Len(scored) < Cardinality(Resolvable(models)))
        => \A j \in DOMAIN scored : scored[j].score = OwnRecencyScore(scored[j])

(* C28: with max-b set, whether a candidate whose id yields no size is     *)
(* kept does not depend on the order in which its tags are enumerated: two *)
(* calls of rank_models with identical candidates and identical catalog    *)
(* responses return the same list, also when several tags carry different  *)
(* size patterns.                                                          *)
\* the list the same call returns when the tag sets are enumerated as in t
OutUnder(t) ==
    rank_models(models, call.top_n, call.sort_mode, call.require_weights, call.gguf_only,
                call.max_b, t).out

C28_TagOrderIrrelevant ==
    (pc = "ranked" /\ call.max_b # None) => \A t \in TagPicks : OutUnder(t) = out

-----------------------------------------------------------------------------
(* storage_organize.py                                                     *)

\* the last call was helper fn
Called(fn) == fscall.fn = fn
\* the standard folders present in directory t
StandardIn(t) == {STANDARD_FOLDERS[i] : i \in DOMAIN STANDARD_FOLDERS} \cap DOMAIN t
\* the regular files of t whose names contain a space
Spaced(t) == {n \in DOMAIN t : t[n] = "file" /\ ReplaceSpaces(n) # n}

(* C21: if the root directory contains the target-only marker,             *)
(* ensure_standard_folders creates none of the standard folders under it,  *)
(* even with dry_run=False, and leaves the directory unchanged.            *)
C21_MarkerRefuses ==
    (Called("ensure_standard_folders") /\ MARKER_TARGET_ONLY \in DOMAIN fscall.before)
        => /\ StandardIn(tree) = StandardIn(fscall.before)
           /\ tree = fscall.before
           /\ fscall.raised = None

\* a real run on a marked directory that lacks a standard folder
C21_Witness ==
    /\ Called("ensure_standard_folders")
    /\ ~fscall.dry_run
    /\ MARKER_TARGET_ONLY \in DOMAIN fscall.before
    /\ INBOX \notin DOMAIN fscall.before

(* C22: after normalize_filenames(root, dry_run=False) every regular file  *)
(* of root whose name contained spaces no longer exists under its original *)
(* name and exists under the name with every space replaced by an          *)
(* underscore, and root has as many entries as before the call.            *)
C22_Normalized ==
    (Called("normalize_filenames") /\ ~fscall.dry_run)
        => /\ \A n \in Spaced(fscall.before) :
                 n \notin DOMAIN tree /\ IsFile(tree, ReplaceSpaces(n))
           /\ Cardinality(DOMAIN tree) = Cardinality(DOMAIN fscall.before)

(* C23: with dry_run=True ensure_standard_folders and normalize_filenames  *)
(* leave the directory unchanged: no directory is created and no file is   *)
(* renamed, whatever the directory holds.                                  *)
C23_DryRunFrame ==
    (fscall.fn # "none" /\ fscall.dry_run)
        => /\ tree = fscall.before
           /\ fscall.raised = None

\* a dry run of ensure_standard_folders on an unmarked directory that lacks
\* a standard folder and holds a file with spaces in its name
C23_Witness ==
    /\ Called("ensure_standard_folders")
    /\ fscall.dry_run
    /\ MARKER_TARGET_ONLY \notin DOMAIN fscall.before
    /\ INBOX \notin DOMAIN fscall.before
    /\ Spaced(fscall.before) # {}

-----------------------------------------------------------------------------
(* The management menus                                                    *)

(* C26: in Ansible mode main_menu performs one operation selected by       *)
(* ANSIBLE_MAIN_CHOICE and then returns, for every value of                *)
(* ANSIBLE_MAIN_CHOICE and ANSIBLE_ADVANCED_CHOICE; in particular the      *)
(* advanced-operations menu entered in Ansible mode eventually returns.    *)
(* Stated for main_menu ending at all, by its return or by an exception    *)
(* that leaves it, which is less than the claim asks.                      *)
MainMenuEnded == mpc \in {"returned", "crashed"}

C26_AnsibleReturns ==
    (prog = PYTHON_TOOL /\ detect_ansible(environ)) ~> MainMenuEnded

(* C29: in both management menus `ollama rm` is issued only after the user *)
(* chose the index of an installed model in the displayed list and then    *)
(* answered the confirmation prompt affirmatively; a non-numeric entry, an *)
(* out-of-range index or any other confirmation answer issues no removal   *)
(* and leaves the installed models unchanged.                              *)
\* an affirmative answer
Affirmative(line) == Lower(Strip(line)) \in {<<"y">>, YES}
\* the line is the number of an entry of the displayed list
IndexOfShown(line) ==
    /\ PyInt(line) # None
    /\ 1 <= PyInt(line)[1]
    /\ PyInt(line)[1] <= Len(shown)
AtIndexPrompt == mpc \in {"remove_index", "delete_index"}
AtConfirmPrompt == mpc \in {"remove_confirm", "delete_confirm"}
InstalledNames == {installed[i] : i \in DOMAIN installed}

C29_RemovalGuarded ==
    [][/\ removal' # None
            => /\ AtConfirmPrompt
               /\ Affirmative(entered'[1])
               /\ removal' = picked
               /\ picked[1] \in {shown[i] : i \in DOMAIN shown}
               /\ picked[1] \in InstalledNames
       /\ (mpc' \in {"remove_confirm", "delete_confirm"} /\ ~AtConfirmPrompt)
            => /\ AtIndexPrompt
               /\ IndexOfShown(entered'[1])
               /\ picked' = <<shown[PyInt(entered'[1])[1]]>>
       /\ AtIndexPrompt
            => /\ removal' = None
               /\ installed' = installed
               /\ ~IndexOfShown(entered'[1]) => ~(mpc' \in {"remove_confirm", "delete_confirm"})
       /\ (AtConfirmPrompt /\ ~Affirmative(entered'[1]))
            => removal' = None /\ installed' = installed]_vars

\* a removal was issued and the model is gone
C29_Witness ==
    /\ removal # None
    /\ removal = picked
    /\ removal[1] \notin InstalledNames
    /\ entered # None
    /\ Affirmative(entered[1])

-----------------------------------------------------------------------------
(* url_crawler.py                                                          *)

(* C30: for every integer depth and every finite link graph, crawl_url     *)
(* terminates, requests each URL at most once, and requests only URLs      *)
(* reached from the start URL by a chain of fewer than depth same-host     *)
(* links (so depth <= 0 requests nothing).                                 *)
RECURSIVE WithinLinks(_)
\* the URLs that a chain of at most k same-host links reaches from the start
WithinLinks(k) ==
    IF k = 0 THEN {site.start}
    ELSE WithinLinks(k - 1)
         \cup {v \in Urls : \E u \in WithinLinks(k - 1) :
                  /\ v.netloc = u.netloc
                  /\ \E i \in DOMAIN site.links[u] : site.links[u][i] = v}
\* the URLs the claim lets a crawl of this depth request
Allowed == IF site.depth <= 0 THEN {} ELSE WithinLinks(site.depth - 1)
Crawling == site # <<>>

C30_CrawlBounded ==
    Crawling
        => /\ \A i, j \in DOMAIN requested : i # j => requested[i] # requested[j]
           /\ \A i \in DOMAIN requested : requested[i] \in Allowed

=============================================================================
